---- MODULE Spec2Model ----
(***************************************************************************)
(* Model of the support-feedback worker (processComplaint with RAG, the    *)
(* HTTP POST handler and the queue consumer) together with the three       *)
(* external stores it talks to: the D1 tables Complaints and Solutions and *)
(* the Vectorize index.  Every await of processComplaint is one step, so   *)
(* that the outcome of each outbound call (value or throw) is chosen by    *)
(* the environment.  Similarity scores are scaled by 10 (0.7 is 7).        *)
(***************************************************************************)
EXTENDS Integers, Sequences, FiniteSets, TLC

\* ------------------------------------------------------------------ bounds
MaxComplaints == 2      \* rows the Complaints table may hold
MaxBatch == 2           \* messages per queue batch

\* --------------------------------------------------------------- constants
Threshold == 7          \* similarComplaints[0].score > 0.7
TopK == 3               \* findSimilarComplaints(text, env, 3)

Keys == {"billing", "technical", "general"}
Sentiments == {"positive", "neutral", "negative"}
AnswerTypes == {"KNOWN_SOLUTION", "STOCK"}
Scores == {6, 7, 8}

\* Solutions.normalized_key is free text: the lookup may be made with any key
SolKeys == Keys \cup {"shipping"}
NoRow == "<no row>"
BillingText == "Please contact billing support."

\* request / message bodies: a field that is missing or empty is ""
ValidBody == [customer_email |-> "a@x.com", text |-> "I was overcharged"]
NoEmail == [customer_email |-> "", text |-> "I was overcharged"]
NoText == [customer_email |-> "a@x.com", text |-> ""]
NoBody == [customer_email |-> "", text |-> ""]
\* no POST body has been read by the handler
NoRequest == [customer_email |-> "<none>", text |-> "<none>"]
\* what a POST may carry, and what a queue message may carry
PostBodies == {ValidBody, NoEmail, NoText, NoBody}
QueueBodies == {ValidBody, NoEmail}

\* ------------------------------------------------- the model's AI responses
\* aiResponse.response abstracted by what the parser can see in it:
\*   absent  - response undefined or ""
\*   json    - /\{[\s\S]*\}/ matches and JSON.parse succeeds; key/sent are
\*             parsed.normalized_key / parsed.sentiment ("" when falsy)
\*   badjson - the braces match but JSON.parse throws; key/sent are the
\*             tokens a regex of the fallback would find in the raw text
\*   text    - no braces; key/sent are the tokens as written in the raw text
Responses ==
  { [kind |-> "absent",  key |-> "",          sent |-> ""],
    [kind |-> "json",    key |-> "billing",   sent |-> "negative"],
    [kind |-> "json",    key |-> "technical", sent |-> "positive"],
    [kind |-> "json",    key |-> "",          sent |-> ""],
    [kind |-> "json",    key |-> "shipping",  sent |-> "angry"],
    [kind |-> "badjson", key |-> "billing",   sent |-> "negative"],
    [kind |-> "badjson", key |-> "",          sent |-> ""],
    [kind |-> "text",    key |-> "BILLING",   sent |-> "Negative"],
    [kind |-> "text",    key |-> "shipping",  sent |-> "angry"],
    [kind |-> "text",    key |-> "",          sent |-> ""] }
NoResponse == [kind |-> "unset", key |-> "", sent |-> ""]

VARIABLES Complaints, Solutions, Index, nextId, run, httpStatus, batch, qpos,
          request, get

vars == <<Complaints, Solutions, Index, nextId, run, httpStatus, batch, qpos,
          request, get>>

\* ------------------------------------------------------------ pure helpers
Min(a, b) == IF a < b THEN a ELSE b

ToLower(s) ==
  CASE s = "BILLING" -> "billing"
    [] s = "Negative" -> "negative"
    [] OTHER -> s

\* /normalized_key["\s:]+(billing|technical|general)/i
KeyMatch(token) == ToLower(token) \in Keys
\* /sentiment["\s:]+(positive|neutral|negative)/i
SentimentMatch(token) == ToLower(token) \in Sentiments

DefaultKey == "general"
DefaultSentiment == "neutral"

\* faulty variant: JSON.parse outside the try block
ParseNoCatch(r) ==
  CASE r.kind = "json" ->
         [normalized_key |-> IF r.key # "" THEN r.key ELSE DefaultKey,
          sentiment |-> IF r.sent # "" THEN r.sent ELSE DefaultSentiment,
          threw |-> FALSE]
    [] r.kind = "badjson" ->
         [normalized_key |-> DefaultKey, sentiment |-> DefaultSentiment,
          threw |-> TRUE]
    [] r.kind = "text" ->
         [normalized_key |-> IF KeyMatch(r.key) THEN ToLower(r.key) ELSE DefaultKey,
          sentiment |-> IF SentimentMatch(r.sent) THEN ToLower(r.sent)
                        ELSE DefaultSentiment,
          threw |-> FALSE]
    [] OTHER ->
         [normalized_key |-> DefaultKey, sentiment |-> DefaultSentiment,
          threw |-> FALSE]

\* faulty variant: the two patterns also tried in the catch, after JSON.parse
\* threw
ParseRegexInCatch(r) ==
  CASE r.kind = "json" ->
         [normalized_key |-> IF r.key # "" THEN r.key ELSE DefaultKey,
          sentiment |-> IF r.sent # "" THEN r.sent ELSE DefaultSentiment,
          threw |-> FALSE]
    [] r.kind \in {"badjson", "text"} ->
         [normalized_key |-> IF KeyMatch(r.key) THEN ToLower(r.key) ELSE DefaultKey,
          sentiment |-> IF SentimentMatch(r.sent) THEN ToLower(r.sent)
                        ELSE DefaultSentiment,
          threw |-> FALSE]
    [] OTHER ->
         [normalized_key |-> DefaultKey, sentiment |-> DefaultSentiment,
          threw |-> FALSE]

\* the parse of aiResponse.response; threw = an exception leaves the block
ParseAIResponse(r) ==
  CASE r.kind = "json" ->
         [normalized_key |-> IF r.key # "" THEN r.key ELSE DefaultKey,
          sentiment |-> IF r.sent # "" THEN r.sent ELSE DefaultSentiment,
          threw |-> FALSE]
    [] r.kind = "badjson" ->
         [normalized_key |-> DefaultKey, sentiment |-> DefaultSentiment,
          threw |-> FALSE]
    [] r.kind = "text" ->
         [normalized_key |-> IF KeyMatch(r.key) THEN ToLower(r.key) ELSE DefaultKey,
          sentiment |-> IF SentimentMatch(r.sent) THEN ToLower(r.sent)
                        ELSE DefaultSentiment,
          threw |-> FALSE]
    [] OTHER ->
         [normalized_key |-> DefaultKey, sentiment |-> DefaultSentiment,
          threw |-> FALSE]

\* `Thank you ... regarding "${normalized_key}" ...`
StockReply(key) ==
  CASE key = "billing" -> "Thank you: billing"
    [] key = "technical" -> "Thank you: technical"
    [] key = "general" -> "Thank you: general"
    [] OTHER -> "Thank you: shipping"

\* solutionResult && solutionResult.solution_text
HasSolution(res) == res # NoRow /\ res # ""

\* faulty variant: the second lookup's result is used without the emptiness test
RagHitUnchecked(res) == TRUE

\* ragSolution && ragSolution.solution_text
RagHit(res) == res # NoRow /\ res # ""

\* faulty variant: threshold compared with >=
ScoreAboveInclusive(score) == score >= Threshold

\* similarComplaints[0].score > 0.7
ScoreAbove(score) == score > Threshold

\* similarComplaints.length > 0 && similarComplaints[0].score > 0.7
HighMatch(similar) == Len(similar) > 0 /\ ScoreAbove(similar[1].score)

\* faulty variant: the similarity branch tested before the exact match
TierRagFirst(solutionResult, similar) ==
  IF HighMatch(similar)
  THEN IF similar[1].metadata.answer_type = "KNOWN_SOLUTION"
       THEN "lookup2" ELSE "stock"
  ELSE IF HasSolution(solutionResult) THEN "exact" ELSE "stock"

\* faulty variant: the metadata's answer_type not tested, every top match
\* above the threshold leads to the second lookup
TierAnyAnswerType(solutionResult, similar) ==
  IF HasSolution(solutionResult) THEN "exact"
  ELSE IF HighMatch(similar) THEN "lookup2" ELSE "stock"

\* faulty variant: the matches searched for one that passes, not only the
\* first one tested
TierAnyMatch(solutionResult, similar) ==
  IF HasSolution(solutionResult) THEN "exact"
  ELSE IF \E i \in 1..Len(similar) :
            /\ ScoreAbove(similar[i].score)
            /\ similar[i].metadata.answer_type = "KNOWN_SOLUTION"
       THEN "lookup2"
       ELSE "stock"

\* the if / else-if chain after the first lookup
Tier(solutionResult, similar) ==
  IF HasSolution(solutionResult) THEN "exact"
  ELSE IF HighMatch(similar)
       THEN IF similar[1].metadata.answer_type = "KNOWN_SOLUTION"
            THEN "lookup2" ELSE "stock"
       ELSE "stock"

\* the metadata a stored embedding exposes to a later query
MetaOf(rec) == [normalized_key |-> rec.normalized_key,
                sentiment |-> rec.sentiment,
                answer_type |-> rec.answer_type]

\* results VECTORIZE.query may return: at most topK distinct records,
\* ordered by descending score
QueryResults ==
  UNION { { [i \in 1..n |-> [score |-> f[i][2], metadata |-> MetaOf(f[i][1])]] :
            f \in { g \in [1..n -> Index \X Scores] :
                      /\ \A i, j \in 1..n : i < j => g[i][1] # g[j][1]
                      /\ \A i, j \in 1..n : i < j => g[i][2] >= g[j][2] } } :
          n \in 0..Min(TopK, Cardinality(Index)) }

\* ------------------------------------------------------------------ state
\* processComplaint: its locals and position; entry keeps the two stores as
\* they were when the call began
IdleRun ==
  [pc |-> "idle", caller |-> "none", complaint |-> NoBody,
   queryEmbedding |-> "unset", queried |-> FALSE, queryError |-> FALSE,
   similarComplaints |-> <<>>,
   aiResponse |-> NoResponse, normalized_key |-> "unset", sentiment |-> "unset",
   solutionResult |-> "unset", ragSolution |-> "unset",
   answer_type |-> "unset", emailResponse |-> "unset",
   last_row_id |-> 0, embedding |-> "unset", vectorInsert |-> "none",
   error |-> "none",
   entry |-> [rows |-> <<>>, index |-> {}]]

\* fetch, method GET: the three query results, the computed snapshot and the
\* response; n0 is the number of rows when the request arrived
IdleGet ==
  [pc |-> "idle", n0 |-> 0, total |-> 0, positive |-> 0, negative |-> 0,
   known |-> 0, stock |-> 0, knownPct |-> 0, stockPct |-> 0, status |-> 0]

Init ==
  /\ Complaints = <<>>
  /\ Solutions = [k \in SolKeys |->
                    CASE k = "billing" -> BillingText
                      [] k = "general" -> ""
                      [] OTHER -> NoRow]
  /\ Index = {}
  /\ nextId = 1
  /\ run = IdleRun
  /\ httpStatus = 0
  /\ batch = <<>>
  /\ qpos = 1
  /\ request = NoRequest
  /\ get = IdleGet

HandlerFree == run.pc = "idle" /\ qpos > Len(batch)

StartRun(caller, body) ==
  run' = [IdleRun EXCEPT !.pc = "embed", !.caller = caller, !.complaint = body,
                         !.entry = [rows |-> Complaints, index |-> Index]]


\* ------------------------------------------------- outcomes of failed calls
\* generateEmbedding: the four things the embedding call can do, and the
\* value the function returns for each (every failure is the empty array)
EmbeddingOutcomes == {"vector", "async", "nodata", "throws"}
GenerateEmbedding(outcome) == IF outcome = "vector" THEN "vec" ELSE "empty"

\* faulty variant: findSimilarComplaints without its catch
QueryThrowPropagates == "failed"

\* findSimilarComplaints: catch (error) { return []; } - the run goes on
AfterQueryThrow == "classify"

\* faulty variant: the classification call wrapped in a catch that keeps the defaults
ClassifyThrowAbsorbed == "lookup1"

\* await env.AI.run(llama) is not inside any try: a throw leaves the function
AfterClassifyThrow == "failed"

\* faulty variant: the INSERT wrapped in a catch, the function carries on
InsertThrowAbsorbed == "embed2"

\* await ...INSERT...run() is not inside any try: a throw leaves the function
AfterInsertThrow == "failed"

\* faulty variant: the second lookup bound to the current complaint's category
RagLookupOwnKey(normalized_key, bestMatch) == normalized_key

\* processComplaint: .bind(bestMatch.metadata.normalized_key)
RagLookupKey(normalized_key, bestMatch) == bestMatch.metadata.normalized_key

\* faulty variant: no else branch after the second lookup, the two variables
\* declared with let stay unassigned
RagMissUnassigned(normalized_key) ==
  [emailResponse |-> "unset", answer_type |-> "unset"]

\* processComplaint: the second lookup found nothing, fall back to the stock
\* reply
RagMiss(normalized_key) ==
  [emailResponse |-> StockReply(normalized_key), answer_type |-> "STOCK"]

\* faulty variant: the id column without AUTOINCREMENT and the counter not
\* advanced, the next insert gets the same id
SameRowId(id) == id

\* id INTEGER PRIMARY KEY AUTOINCREMENT: the id after the one just assigned
NextRowId(id) == id + 1

\* faulty variant: the id built before the INSERT has returned, from a
\* last_row_id that is not there yet
ComplaintIdUnassigned(last_row_id) == 0

\* `complaint-${Date.now()}-${insertResult.meta.last_row_id}`: the row id
\* is the part of the embedding id that identifies the complaint
ComplaintId(last_row_id) == last_row_id

\* faulty variant: the metadata built with the defaults, not with the values
\* the run decided
EmbeddingRecordDefaults(r) ==
  [id |-> ComplaintId(r.last_row_id),
   customer_email |-> r.complaint.customer_email,
   text |-> r.complaint.text,
   normalized_key |-> DefaultKey,
   sentiment |-> DefaultSentiment,
   answer_type |-> "STOCK"]

\* storeComplaintEmbedding: the vector passed to VECTORIZE.insert, its id and
\* its metadata
EmbeddingRecord(r) ==
  [id |-> ComplaintId(r.last_row_id),
   customer_email |-> r.complaint.customer_email,
   text |-> r.complaint.text,
   normalized_key |-> r.normalized_key,
   sentiment |-> r.sentiment,
   answer_type |-> r.answer_type]

\* faulty variant: a complaint already stored with the same customer_email
\* and text is not stored again
InsertUnlessPresent(rows, row) ==
  IF \E i \in 1..Len(rows) : /\ rows[i].customer_email = row.customer_email
                             /\ rows[i].text = row.text
  THEN rows
  ELSE Append(rows, row)

\* INSERT INTO Complaints (...) VALUES (...): one more row, unconditionally
InsertRow(rows, row) == Append(rows, row)

\* faulty variant: storeComplaintEmbedding without its catch
VectorInsertThrowPropagates == "failed"

\* storeComplaintEmbedding: the catch logs and returns, the caller carries on
AfterVectorInsertThrow == "done"

\* faulty variant: ack() moved out of the try block
AckAlways(pc) == "acked"

\* queue: ack() after processComplaint returned, retry() in the catch
SettleStatus(pc) == IF pc = "done" THEN "acked" ELSE "retried"

\* faulty variant: the try around the whole loop, an error ends the batch
LeaveLoopOnError(pos, pc, n) == IF pc = "failed" THEN n + 1 ELSE pos + 1

\* queue: for (const message of batch.messages) with the try inside the
\* body: the loop goes on to the next message after ack() and after retry()
NextMessage(pos, pc, n) == pos + 1

\* faulty variant: the two tests joined with && instead of ||
MissingBoth(body) == body.customer_email = "" /\ body.text = ""

\* fetch: !body.customer_email || !body.text
MissingFields(body) == body.customer_email = "" \/ body.text = ""

\* ---------------------------------------------------------------- actions
\* fetch, method POST: validation, then entry into processComplaint
PostRequest(body) ==
  /\ HandlerFree
  /\ Len(Complaints) < MaxComplaints
  /\ IF MissingFields(body)
     THEN /\ httpStatus' = 400
          /\ run' = IdleRun
     ELSE /\ httpStatus' = 0
          /\ StartRun("post", body)
  /\ batch' = <<>>
  /\ qpos' = 1
  /\ request' = body
  /\ UNCHANGED <<Complaints, Solutions, Index, nextId, get>>

\* a batch is delivered to queue()
QueueBatch(msgs) ==
  /\ HandlerFree
  /\ Len(msgs) > 0
  /\ batch' = [i \in 1..Len(msgs) |-> [body |-> msgs[i], status |-> "pending"]]
  /\ qpos' = 1
  /\ run' = IdleRun
  /\ httpStatus' = 0
  /\ request' = NoRequest
  /\ UNCHANGED <<Complaints, Solutions, Index, nextId, get>>

\* queue: the loop takes the next message and calls processComplaint
QueueNext ==
  /\ run.pc = "idle"
  /\ qpos <= Len(batch)
  /\ Len(Complaints) < MaxComplaints
  /\ StartRun("queue", batch[qpos].body)
  /\ UNCHANGED <<Complaints, Solutions, Index, nextId, httpStatus, batch, qpos>>
  /\ UNCHANGED <<request, get>>

\* findSimilarComplaints: generateEmbedding(queryText) returns
EmbedQuery(outcome) ==
  /\ run.pc = "embed"
  /\ LET e == GenerateEmbedding(outcome) IN
       run' = [run EXCEPT !.queryEmbedding = e,
                          !.pc = IF e = "empty" THEN "classify" ELSE "query"]
  /\ UNCHANGED <<Complaints, Solutions, Index, nextId, httpStatus, batch, qpos>>
  /\ UNCHANGED <<request, get>>

\* findSimilarComplaints: VECTORIZE.query returns or throws
Query(threw) ==
  /\ run.pc = "query"
  /\ IF threw
     THEN run' = [run EXCEPT !.queried = TRUE,
                             !.queryError = TRUE,
                             !.pc = AfterQueryThrow,
                             !.error = IF AfterQueryThrow = "failed"
                                       THEN "query" ELSE "none"]
     ELSE \E matches \in QueryResults :
            run' = [run EXCEPT !.queried = TRUE,
                               !.similarComplaints = matches,
                               !.pc = "classify"]
  /\ UNCHANGED <<Complaints, Solutions, Index, nextId, httpStatus, batch, qpos>>
  /\ UNCHANGED <<request, get>>

\* processComplaint step 1: env.AI.run(llama) returns or throws, then the parse
Classify(threw, r) ==
  /\ run.pc = "classify"
  /\ IF threw /\ AfterClassifyThrow = "failed"
     THEN run' = [run EXCEPT !.pc = "failed", !.error = "classify"]
     ELSE LET resp == IF threw THEN NoResponse ELSE r
              p == ParseAIResponse(resp)
          IN IF p.threw
             THEN run' = [run EXCEPT !.aiResponse = resp, !.pc = "failed",
                                     !.error = "parse"]
             ELSE run' = [run EXCEPT !.aiResponse = resp,
                                     !.normalized_key = p.normalized_key,
                                     !.sentiment = p.sentiment,
                                     !.pc = "lookup1"]
  /\ UNCHANGED <<Complaints, Solutions, Index, nextId, httpStatus, batch, qpos>>
  /\ UNCHANGED <<request, get>>

\* processComplaint step 2: the exact-match SELECT returns or throws, then
\* the if / else-if chain up to the next await
Lookup1(threw) ==
  /\ run.pc = "lookup1"
  /\ IF threw
     THEN run' = [run EXCEPT !.aiResponse = NoResponse, !.pc = "failed",
                             !.error = "lookup1",
                             !.similarComplaints = <<>>]
     ELSE LET res == Solutions[run.normalized_key]
              tier == Tier(res, run.similarComplaints)
          IN CASE tier = "exact" ->
                    run' = [run EXCEPT !.aiResponse = NoResponse, !.solutionResult = res,
                                       !.emailResponse = res,
                                       !.answer_type = "KNOWN_SOLUTION",
                                       !.pc = "insert"]
               [] tier = "lookup2" ->
                    run' = [run EXCEPT !.aiResponse = NoResponse, !.solutionResult = res,
                                       !.pc = "lookup2"]
               [] OTHER ->
                    run' = [run EXCEPT !.aiResponse = NoResponse, !.solutionResult = res,
                                       !.emailResponse = StockReply(run.normalized_key),
                                       !.answer_type = "STOCK",
                                       !.pc = "insert"]
  /\ UNCHANGED <<Complaints, Solutions, Index, nextId, httpStatus, batch, qpos>>
  /\ UNCHANGED <<request, get>>

\* processComplaint: the SELECT for bestMatch.metadata.normalized_key
Lookup2(threw) ==
  /\ run.pc = "lookup2"
  /\ IF threw
     THEN run' = [run EXCEPT !.pc = "failed", !.error = "lookup2",
                             !.similarComplaints = <<>>]
     ELSE LET res == Solutions[RagLookupKey(run.normalized_key,
                                            run.similarComplaints[1])]
              miss == RagMiss(run.normalized_key)
          IN IF RagHit(res)
             THEN run' = [run EXCEPT !.ragSolution = res,
                                     !.emailResponse = res,
                                     !.answer_type = "KNOWN_SOLUTION",
                                     !.pc = "insert"]
             ELSE run' = [run EXCEPT !.ragSolution = res,
                                     !.emailResponse = miss.emailResponse,
                                     !.answer_type = miss.answer_type,
                                     !.pc = "insert"]
  /\ UNCHANGED <<Complaints, Solutions, Index, nextId, httpStatus, batch, qpos>>
  /\ UNCHANGED <<request, get>>

\* processComplaint step 4: INSERT INTO Complaints returns or throws
Insert(threw) ==
  /\ run.pc = "insert"
  /\ IF threw
     THEN /\ run' = [run EXCEPT !.pc = AfterInsertThrow,
                                !.error = IF AfterInsertThrow = "failed"
                                          THEN "insert" ELSE "none",
                                !.similarComplaints = <<>>]
          /\ UNCHANGED <<Complaints, nextId>>
     ELSE /\ Complaints' = InsertRow(Complaints,
                [id |-> nextId,
                 customer_email |-> run.complaint.customer_email,
                 text |-> run.complaint.text,
                 sentiment |-> run.sentiment,
                 normalized_key |-> run.normalized_key,
                 answer_type |-> run.answer_type,
                 answered |-> TRUE])
          /\ nextId' = NextRowId(nextId)
          /\ run' = [run EXCEPT !.last_row_id = nextId, !.pc = "embed2",
                                !.similarComplaints = <<>>]
  /\ UNCHANGED <<Solutions, Index, httpStatus, batch, qpos>>
  /\ UNCHANGED <<request, get>>

\* storeComplaintEmbedding: generateEmbedding(text) returns, a second call
EmbedStore(outcome) ==
  /\ run.pc = "embed2"
  /\ LET e == GenerateEmbedding(outcome) IN
       run' = [run EXCEPT !.embedding = e,
                          !.pc = IF e = "empty" THEN "done" ELSE "vinsert"]
  /\ UNCHANGED <<Complaints, Solutions, Index, nextId, httpStatus, batch, qpos>>
  /\ UNCHANGED <<request, get>>

\* storeComplaintEmbedding: VECTORIZE.insert returns or throws (swallowed)
VectorInsert(threw) ==
  /\ run.pc = "vinsert"
  /\ IF threw
     THEN /\ run' = [run EXCEPT !.vectorInsert = "failed",
                                  !.pc = AfterVectorInsertThrow,
                                  !.error = IF AfterVectorInsertThrow = "failed"
                                            THEN "vinsert" ELSE "none"]
          /\ UNCHANGED Index
     ELSE /\ run' = [run EXCEPT !.vectorInsert = "ok", !.pc = "done"]
          /\ Index' = Index \cup {EmbeddingRecord(run)}
  /\ UNCHANGED <<Complaints, Solutions, nextId, httpStatus, batch, qpos>>
  /\ UNCHANGED <<request, get>>

\* fetch, method POST: the 200 response, or the catch's 500
PostRespond ==
  /\ run.caller = "post"
  /\ run.pc \in {"done", "failed"}
  /\ httpStatus' = IF run.pc = "done" THEN 200 ELSE 500
  /\ run' = IdleRun
  /\ UNCHANGED <<Complaints, Solutions, Index, nextId, batch, qpos>>
  /\ UNCHANGED <<request, get>>

\* queue: message.ack() / message.retry(), then the next loop iteration
QueueSettle ==
  /\ run.caller = "queue"
  /\ run.pc \in {"done", "failed"}
  /\ batch' = [batch EXCEPT ![qpos].status = SettleStatus(run.pc)]
  /\ qpos' = NextMessage(qpos, run.pc, Len(batch))
  /\ run' = IdleRun
  /\ UNCHANGED <<Complaints, Solutions, Index, nextId, httpStatus>>
  /\ UNCHANGED <<request, get>>

\* the Solutions table is reference data edited outside the worker
DeleteSolution(k) ==
  /\ Solutions[k] # NoRow
  /\ Solutions' = [Solutions EXCEPT ![k] = NoRow]
  /\ UNCHANGED <<Complaints, Index, nextId, run, httpStatus, batch, qpos>>
  /\ UNCHANGED <<request, get>>

\* ------------------------------------------------------ fetch, method GET

\* an aggregate over no rows: SUM(...) is NULL
Null == -1
\* what parseFloat gives for the text "NaN"
NaN == -2

\* SELECT COUNT(*) as total FROM Complaints
CountAll(rows) == Len(rows)

\* faulty variant: the CASE dropped, every row counts 1
SumAll(rows, column, value) == IF Len(rows) = 0 THEN Null ELSE Len(rows)

\* SELECT SUM(CASE WHEN column = value THEN 1 ELSE 0 END) FROM Complaints
SumCase(rows, column, value) ==
  IF Len(rows) = 0
  THEN Null
  ELSE Cardinality({ i \in 1..Len(rows) : rows[i][column] = value })

\* x || 0
OrZero(x) == IF x = Null \/ x = 0 THEN 0 ELSE x

\* faulty variant: the division made without the total > 0 test; 0 / 0 is
\* NaN and prints as "NaN"
PercentageUnguarded(count, total) ==
  IF total = 0 THEN NaN ELSE (20000 * count + total) \div (2 * total)

\* total > 0 ? ((count / total) * 100).toFixed(2) : '0.00', then parseFloat;
\* the value is kept in hundredths of a percent
Percentage(count, total) ==
  IF total > 0 THEN (20000 * count + total) \div (2 * total) ELSE 0

\* fetch: a GET request arrives
GetRequest ==
  /\ get.pc = "idle"
  /\ get' = [IdleGet EXCEPT !.pc = "total", !.n0 = Len(Complaints)]
  /\ UNCHANGED <<Complaints, Solutions, Index, nextId, run, httpStatus, batch,
                 qpos, request>>

\* fetch: the catch around the three queries
GetFailed == [IdleGet EXCEPT !.pc = "responded", !.status = 500]

\* fetch: query 1 returns or throws
GetTotal(threw) ==
  /\ get.pc = "total"
  /\ get' = IF threw
            THEN GetFailed
            ELSE [get EXCEPT !.total = CountAll(Complaints), !.pc = "sentiment"]
  /\ UNCHANGED <<Complaints, Solutions, Index, nextId, run, httpStatus, batch,
                 qpos, request>>

\* fetch: query 2 returns or throws
GetSentiment(threw) ==
  /\ get.pc = "sentiment"
  /\ get' = IF threw
            THEN GetFailed
            ELSE [get EXCEPT
                    !.positive = SumCase(Complaints, "sentiment", "positive"),
                    !.negative = SumCase(Complaints, "sentiment", "negative"),
                    !.pc = "answer_type"]
  /\ UNCHANGED <<Complaints, Solutions, Index, nextId, run, httpStatus, batch,
                 qpos, request>>

\* fetch: query 3 returns or throws; then the || 0 defaults, the two
\* percentages, the analytics object and the response
GetAnswerType(threw) ==
  /\ get.pc = "answer_type"
  /\ get' = IF threw
            THEN GetFailed
            ELSE LET total == OrZero(get.total)
                     knownSolutionCount ==
                       OrZero(SumCase(Complaints, "answer_type", "KNOWN_SOLUTION"))
                     stockCount ==
                       OrZero(SumCase(Complaints, "answer_type", "STOCK"))
                 IN [get EXCEPT
                       !.total = total,
                       !.positive = OrZero(get.positive),
                       !.negative = OrZero(get.negative),
                       !.known = knownSolutionCount,
                       !.stock = stockCount,
                       !.knownPct = Percentage(knownSolutionCount, total),
                       !.stockPct = Percentage(stockCount, total),
                       !.status = 200,
                       !.pc = "responded"]
  /\ UNCHANGED <<Complaints, Solutions, Index, nextId, run, httpStatus, batch,
                 qpos, request>>

\* fetch: a request with any other method
OtherMethod ==
  /\ get.pc = "idle"
  /\ get' = [IdleGet EXCEPT !.pc = "responded", !.status = 405]
  /\ UNCHANGED <<Complaints, Solutions, Index, nextId, run, httpStatus, batch,
                 qpos, request>>

\* the response has been sent, the request is over
GetClose ==
  /\ get.pc = "responded"
  /\ get' = IdleGet
  /\ UNCHANGED <<Complaints, Solutions, Index, nextId, run, httpStatus, batch,
                 qpos, request>>

\* the batches delivered: a single message of either kind, or up to
\* MaxBatch well-formed messages
BatchBodies ==
  { <<b>> : b \in QueueBodies } \cup
  { [i \in 1..n |-> ValidBody] : n \in 1..MaxBatch }

\* no GET or other-method request is being served
GetFree == get.pc = "idle"

\* the worker serving one request or batch at a time
Next ==
  \/ \E body \in PostBodies : GetFree /\ PostRequest(body)
  \/ \E msgs \in BatchBodies : GetFree /\ QueueBatch(msgs)
  \/ HandlerFree /\ GetRequest
  \/ \E threw \in BOOLEAN : GetTotal(threw)
  \/ \E threw \in BOOLEAN : GetSentiment(threw)
  \/ \E threw \in BOOLEAN : GetAnswerType(threw)
  \/ HandlerFree /\ OtherMethod
  \/ GetClose
  \/ QueueNext
  \/ \E o \in EmbeddingOutcomes : EmbedQuery(o)
  \/ \E threw \in BOOLEAN : Query(threw)
  \/ \E threw \in BOOLEAN, r \in Responses : Classify(threw, r)
  \/ \E threw \in BOOLEAN : Lookup1(threw)
  \/ \E threw \in BOOLEAN : Lookup2(threw)
  \/ \E threw \in BOOLEAN : Insert(threw)
  \/ \E o \in EmbeddingOutcomes : EmbedStore(o)
  \/ \E threw \in BOOLEAN : VectorInsert(threw)
  \/ PostRespond
  \/ QueueSettle
  \/ \E k \in {"billing"} : DeleteSolution(k)

Spec == Init /\ [][Next]_vars

\* the HTTP side of the worker with requests served concurrently: a POST in
\* flight and a GET (or other-method) request interleave at every await
NextHttp ==
  \/ \E body \in PostBodies : PostRequest(body)
  \/ \E e \in EmbeddingOutcomes : EmbedQuery(e)
  \/ \E threw \in BOOLEAN : Query(threw)
  \/ \E threw \in BOOLEAN, r \in Responses : Classify(threw, r)
  \/ \E threw \in BOOLEAN : Lookup1(threw)
  \/ \E threw \in BOOLEAN : Lookup2(threw)
  \/ \E threw \in BOOLEAN : Insert(threw)
  \/ \E e \in EmbeddingOutcomes : EmbedStore(e)
  \/ \E threw \in BOOLEAN : VectorInsert(threw)
  \/ PostRespond
  \/ GetRequest
  \/ \E threw \in BOOLEAN : GetTotal(threw)
  \/ \E threw \in BOOLEAN : GetSentiment(threw)
  \/ \E threw \in BOOLEAN : GetAnswerType(threw)
  \/ OtherMethod
  \/ GetClose

SpecHttp == Init /\ [][NextHttp]_vars

\* ------------------------------------------------- the decision on its own
\* one match as findSimilarComplaints returns it: score and metadata
Matches ==
  [score : Scores,
   metadata : [normalized_key : Keys, sentiment : {"neutral"},
               answer_type : AnswerTypes]]

\* the match sequences a query with topK = 3 can return: at most TopK
\* matches, ordered by descending score
MatchSeqs ==
  UNION { { q \in [1..n -> Matches] :
              \A i, j \in 1..n : i < j => q[i].score >= q[j].score } :
          n \in 0..TopK }

\* a run that has finished its similarity search and its classification,
\* with any match sequence and either of two categories, about to make the
\* first lookup
InitDecide ==
  /\ Complaints = <<>>
  /\ Solutions = [k \in SolKeys |->
                    CASE k = "billing" -> BillingText
                      [] k = "general" -> ""
                      [] OTHER -> NoRow]
  /\ Index = {}
  /\ nextId = 1
  /\ httpStatus = 0
  /\ batch = <<>>
  /\ qpos = 1
  /\ request = ValidBody
  /\ get = IdleGet
  /\ \E similar \in MatchSeqs, key \in {"billing", "technical"} :
       run = [IdleRun EXCEPT !.pc = "lookup1",
                             !.caller = "post",
                             !.complaint = ValidBody,
                             !.queryEmbedding = "vec",
                             !.queried = TRUE,
                             !.similarComplaints = similar,
                             !.normalized_key = key,
                             !.sentiment = "neutral"]

NextDecide ==
  \/ \E threw \in BOOLEAN : Lookup1(threw)
  \/ \E threw \in BOOLEAN : Lookup2(threw)
  \/ \E k \in {"billing"} : DeleteSolution(k)

SpecDecide == InitDecide /\ [][NextDecide]_vars


\* ------------------------------------------------------------- properties
Resolved == run.pc \in {"insert", "embed2", "vinsert", "done"}
NoExactMatch == run.solutionResult \in {NoRow, ""}
RowOf(id) == { i \in 1..Len(Complaints) : Complaints[i].id = id }

\* C1: whenever the first Solutions lookup returned a non-empty
\* solution_text, the decision is KNOWN_SOLUTION with that text as the
\* email response and no second lookup is made, whatever the similarity
\* search returned.
C1_Tier1Precedence ==
  run.solutionResult \notin {"unset", NoRow, ""} =>
    /\ run.pc # "lookup2"
    /\ run.ragSolution = "unset"
    /\ Resolved => /\ run.answer_type = "KNOWN_SOLUTION"
                   /\ run.emailResponse = run.solutionResult

\* C1 witness: an exact match decided while the top similarity match scored
\* above the threshold and carried STOCK metadata
C1_Witness ==
  /\ run.pc = "insert"
  /\ run.solutionResult = BillingText
  /\ run.answer_type = "KNOWN_SOLUTION"
  /\ Len(run.similarComplaints) > 0
  /\ run.similarComplaints[1].score > Threshold
  /\ run.similarComplaints[1].metadata.answer_type = "STOCK"

\* C2: with no exact match and a top similarity score of exactly 0.7 the
\* second lookup is never made and the decision is the stock reply.
C2_StrictThreshold ==
  ( /\ run.pc \in {"lookup2", "insert"}
    /\ NoExactMatch
    /\ Len(run.similarComplaints) > 0
    /\ run.similarComplaints[1].score = 7 )
  => /\ run.pc = "insert"
     /\ run.ragSolution = "unset"
     /\ run.answer_type = "STOCK"
     /\ run.emailResponse = StockReply(run.normalized_key)

\* C2 witness: the top match scored exactly 0.7, was answered with a known
\* solution and its category still has a solution, and the reply is STOCK
C2_Witness ==
  /\ run.pc = "insert"
  /\ NoExactMatch
  /\ Len(run.similarComplaints) > 0
  /\ run.similarComplaints[1].score = 7
  /\ run.similarComplaints[1].metadata.answer_type = "KNOWN_SOLUTION"
  /\ Solutions[run.similarComplaints[1].metadata.normalized_key] = BillingText
  /\ run.answer_type = "STOCK"

\* C3: with no exact match, a top score above 0.7 and matched metadata
\* KNOWN_SOLUTION, the second lookup reads Solutions for the matched
\* category at resolution time, and unless it returns a non-empty
\* solution_text the decision is STOCK.
C3_Tier2NeedsLiveSolution ==
  /\ []( ( /\ run.pc = "insert"
           /\ NoExactMatch
           /\ Len(run.similarComplaints) > 0
           /\ run.similarComplaints[1].score > 7
           /\ run.similarComplaints[1].metadata.answer_type = "KNOWN_SOLUTION"
           /\ run.ragSolution \in {"unset", NoRow, ""} )
         => /\ run.answer_type = "STOCK"
            /\ run.emailResponse = StockReply(run.normalized_key) )
  /\ [][ ( run.pc = "lookup2" /\ run'.pc = "insert" )
         => run'.ragSolution =
              Solutions[run.similarComplaints[1].metadata.normalized_key] ]_vars

\* C3 witness: the matched complaint was answered from the billing solution,
\* the solution has been deleted since, and the reply is STOCK
C3_Witness ==
  /\ run.pc = "insert"
  /\ NoExactMatch
  /\ Len(run.similarComplaints) > 0
  /\ run.similarComplaints[1].score > Threshold
  /\ run.similarComplaints[1].metadata.answer_type = "KNOWN_SOLUTION"
  /\ run.similarComplaints[1].metadata.normalized_key = "billing"
  /\ run.ragSolution = NoRow
  /\ Solutions["billing"] = NoRow
  /\ run.answer_type = "STOCK"

\* C4: every row of Complaints has normalized_key in {billing, technical,
\* general} and sentiment in {positive, neutral, negative}.
C4_RowsInSet ==
  \A i \in 1..Len(Complaints) :
    /\ Complaints[i].normalized_key \in Keys
    /\ Complaints[i].sentiment \in Sentiments

\* a response in which neither fallback pattern finds a token
NoToken(r) == r.key \in {"", "shipping"} /\ r.sent \in {"", "angry"}

\* C5: a response that is absent, or has no parseable JSON object and no
\* token the fallback patterns match, classifies as general / neutral, and
\* no exception leaves the parse.
C5_ClassifierDefault ==
  /\ run.error # "parse"
  /\ ( /\ run.pc = "lookup1"
       /\ \/ run.aiResponse.kind = "absent"
          \/ run.aiResponse.kind \in {"badjson", "text"} /\ NoToken(run.aiResponse) )
     => /\ run.normalized_key = "general"
        /\ run.sentiment = "neutral"

\* C5 witness: braces that do not parse and no token, classified by default
C5_Witness ==
  /\ run.pc = "lookup1"
  /\ run.aiResponse.kind = "badjson"
  /\ NoToken(run.aiResponse)
  /\ run.normalized_key = "general"
  /\ run.sentiment = "neutral"

\* C6: in a run whose embedding call failed (empty vector) the index is
\* never queried, the second lookup is never made, VECTORIZE.insert is never
\* called, and a completed run is KNOWN_SOLUTION exactly when the exact
\* lookup found a non-empty solution.
C6_EmbeddingFailure ==
  run.queryEmbedding = "empty" =>
    /\ ~run.queried
    /\ run.pc # "lookup2"
    /\ run.ragSolution = "unset"
    /\ run.pc # "vinsert"
    /\ run.vectorInsert = "none"
    /\ run.pc = "done" =>
         (run.answer_type = "KNOWN_SOLUTION" <=> ~NoExactMatch)

\* C7: a message is acked only by the step that follows a successful
\* processComplaint for it, whose row is in Complaints; it is retried
\* whenever processComplaint threw.
C7_QueueAck ==
  [][ \A i \in 1..Len(batch) :
        ( /\ Len(batch') = Len(batch)
          /\ batch[i].status = "pending"
          /\ batch'[i].status # "pending" )
        => /\ i = qpos
           /\ run.caller = "queue"
           /\ run.complaint = batch[i].body
           /\ batch'[i].status = "acked" =>
                /\ run.pc = "done"
                /\ \E j \in RowOf(run.last_row_id) :
                      /\ Complaints[j].customer_email = batch[i].body.customer_email
                      /\ Complaints[j].text = batch[i].body.text
           /\ run.pc = "failed" => batch'[i].status = "retried" ]_vars

\* C7 witness: a batch with one message retried and the next one acked
C7_Witness ==
  /\ Len(batch) = 2
  /\ batch[1].status = "retried"
  /\ batch[2].status = "acked"

\* C8: when the INSERT fails the run ends in error with Complaints and the
\* index untouched, VECTORIZE.insert is not reached, and the caller answers
\* 500 (POST) or retries the message (queue).
C8_InsertFailureFatal ==
  /\ [](run.error = "insert" =>
          /\ run.pc = "failed"
          /\ run.last_row_id = 0
          /\ run.embedding = "unset"
          /\ run.vectorInsert = "none")
  /\ [](run.pc \in {"embed2", "vinsert", "done"} => RowOf(run.last_row_id) # {})
  /\ [][ /\ ( run.pc = "insert" /\ run'.pc # "insert" /\ Complaints' = Complaints )
            => /\ run'.pc = "failed"
               /\ run'.error = "insert"
               /\ Index' = Index
         /\ ( run.error = "insert" /\ run'.pc = "idle" )
            => /\ Complaints' = Complaints
               /\ Index' = Index
               /\ run.caller = "post" => httpStatus' = 500
               /\ run.caller = "queue" => batch'[qpos].status = "retried" ]_vars

\* C8 witness: an INSERT failed while the table already held a row
C8_Witness ==
  /\ run.pc = "failed"
  /\ run.error = "insert"
  /\ Len(Complaints) = 1

\* C9: when the classification call throws the run ends in error, nothing
\* is written to Complaints or to the index, and the caller answers 500
\* (POST) or retries the message (queue).
C9_ClassifierCallFatal ==
  /\ [](run.error = "classify" =>
          /\ run.pc = "failed"
          /\ run.last_row_id = 0
          /\ run.vectorInsert = "none")
  /\ [][ /\ ( run.pc = "classify" /\ run'.pc # "classify" )
            => \/ /\ run'.pc = "failed"
                  /\ run'.error = "classify"
                  /\ Complaints' = Complaints
                  /\ Index' = Index
               \/ /\ run'.pc = "lookup1"
                  /\ run'.aiResponse \in Responses
         /\ ( run.error = "classify" /\ run'.pc = "idle" )
            => /\ Complaints' = Complaints
               /\ Index' = Index
               /\ run.caller = "post" => httpStatus' = 500
               /\ run.caller = "queue" => batch'[qpos].status = "retried" ]_vars

\* C9 witness: a POST whose classification call threw
C9_Witness ==
  /\ run.pc = "failed"
  /\ run.error = "classify"
  /\ run.caller = "post"

\* C10 as stated: a run never ends in error because of the classifier's
\* inference call; the only processing failure is the Complaints write.
C10_InferenceAbsorbed ==
  run.pc = "failed" => run.error = "insert"

\* C10 amended: failures of the embedding call and of the similarity query
\* are absorbed, but a failure of the classification call ends the run in
\* error with no row written; a run ends in error only on a failed
\* classification call, Solutions lookup or Complaints write.
C10_OnlyEmbedderAbsorbed ==
  /\ run.pc = "failed" =>
       /\ run.error \in {"classify", "lookup1", "lookup2", "insert"}
       /\ run.last_row_id = 0
  /\ run.error # "none" => run.pc = "failed"
  /\ run.queryEmbedding = "empty" => run.pc # "query" /\ ~run.queried

\* C10 witness: the embedding call failed and was absorbed, then the
\* classification call failed and ended the queue run in error
C10_Witness ==
  /\ run.pc = "failed"
  /\ run.error = "classify"
  /\ run.caller = "queue"
  /\ run.queryEmbedding = "empty"

\* ------------------------------------------------------------------------
\* C11: a POST whose body lacks customer_email or text (missing or empty) is
\* answered 400 and never enters the pipeline: the handler stays idle, so no
\* inference call and no similarity query is made for it, and the step that
\* rejects it leaves Complaints and the vector index as they were. Every
\* pipeline run started by a POST carries both fields.
C11_RejectedBeforePipeline ==
  /\ [](request.customer_email = "" \/ request.text = ""
          => httpStatus = 400 /\ run = IdleRun)
  /\ [](run.caller = "post" /\ run.pc # "idle"
          => /\ run.complaint = request
             /\ request.customer_email # ""
             /\ request.text # "")
  /\ [][request'.customer_email = "" \/ request'.text = ""
          => Complaints' = Complaints /\ Index' = Index /\ nextId' = nextId]_vars

C11_Witness ==
  /\ request = NoText
  /\ httpStatus = 400
  /\ run.pc = "idle"
  /\ Len(Complaints) = 1

\* ------------------------------------------------------------------------
\* C12: a VECTORIZE.insert that fails after the row was written is swallowed:
\* the run still completes with the fields it had computed, the row stays in
\* Complaints, and the caller gets the success outcome (POST 200, queue
\* message acked).
C12_StoreFailureSwallowed ==
  /\ [](run.vectorInsert = "failed"
          => /\ run.pc = "done"
             /\ run.error = "none"
             /\ \E i \in 1..Len(Complaints) :
                  /\ Complaints[i].id = run.last_row_id
                  /\ Complaints[i].normalized_key = run.normalized_key
                  /\ Complaints[i].sentiment = run.sentiment
                  /\ Complaints[i].answer_type = run.answer_type)
  /\ [][run.pc = "vinsert" /\ run'.vectorInsert = "failed"
          => /\ run' = [run EXCEPT !.vectorInsert = "failed", !.pc = "done"]
             /\ Complaints' = Complaints]_vars
  /\ [][run.vectorInsert = "failed" /\ run'.pc = "idle"
          => /\ Complaints' = Complaints
             /\ run.caller = "post" => httpStatus' = 200
             /\ run.caller = "queue" => batch'[qpos].status = "acked"]_vars

C12_Witness ==
  /\ run.vectorInsert = "failed"
  /\ run.pc = "done"
  /\ run.caller = "queue"
  /\ run.answer_type = "KNOWN_SOLUTION"

\* ------------------------------------------------------------------------
\* C13: when VECTORIZE.query fails, findSimilarComplaints yields the empty
\* match set without raising: the run goes on to classification with no
\* matches, makes no second lookup, resolves to STOCK unless the first lookup
\* found a solution, and (no other call failing) completes with its row
\* persisted and the success outcome.
C13_QueryFailureDegrades ==
  /\ [](run.queryError
          => /\ run.similarComplaints = <<>>
             /\ run.pc # "lookup2"
             /\ run.ragSolution = "unset"
             /\ run.error \in {"none", "classify", "lookup1", "insert"}
             /\ Resolved =>
                  IF NoExactMatch
                  THEN /\ run.answer_type = "STOCK"
                       /\ run.emailResponse = StockReply(run.normalized_key)
                  ELSE /\ run.answer_type = "KNOWN_SOLUTION"
                       /\ run.emailResponse = run.solutionResult
             /\ run.pc = "done" => RowOf(run.last_row_id) # {})
  /\ [][run.pc = "query" /\ run'.queryError
          => run' = [run EXCEPT !.queried = TRUE, !.queryError = TRUE,
                                !.pc = "classify"]]_vars
  /\ [][run.queryError /\ run.pc = "done" /\ run'.pc = "idle"
          => /\ run.caller = "post" => httpStatus' = 200
             /\ run.caller = "queue" => batch'[qpos].status = "acked"]_vars

C13_Witness ==
  /\ run.queryError
  /\ run.pc = "done"
  /\ run.answer_type = "STOCK"
  /\ run.queryEmbedding = "vec"
  /\ Len(Complaints) = 2

\* ------------------------------------------------------------------------
\* C14: every row of Complaints has answer_type KNOWN_SOLUTION or STOCK:
\* each path of the tier chain assigns one of the two before the insert.
C14_AnswerTypeAssigned ==
  /\ \A i \in 1..Len(Complaints) : Complaints[i].answer_type \in AnswerTypes
  /\ Resolved => run.answer_type \in AnswerTypes /\ run.emailResponse # "unset"

\* rows reached through each path of the chain: the first lookup, the second
\* lookup's fallback, and the plain stock reply
C14_Witness ==
  /\ Len(Complaints) = 2
  /\ Complaints[1].answer_type = "KNOWN_SOLUTION"
  /\ Complaints[2].answer_type = "STOCK"
  /\ run.pc = "embed2"
  /\ run.last_row_id = 2
  /\ run.ragSolution = NoRow

\* ------------------------------------------------------------------------
\* C15: Complaints is append-only. No step of any handler (GET, POST, queue,
\* other methods) changes or removes an existing row; the table changes only
\* by the insert step of a run, which appends exactly one row whose id is
\* larger than every id already present; a run that completes has exactly
\* one row of its own, and ids increase along the table.
C15_AppendOnly ==
  /\ [][/\ Len(Complaints') >= Len(Complaints)
        /\ \A i \in 1..Len(Complaints) : Complaints'[i] = Complaints[i]
        /\ Complaints' # Complaints
             => /\ run.pc = "insert" /\ run'.pc = "embed2"
                /\ Len(Complaints') = Len(Complaints) + 1
                /\ Complaints'[Len(Complaints')].id = run'.last_row_id
                /\ \A i \in 1..Len(Complaints) :
                     Complaints[i].id < run'.last_row_id]_vars
  /\ [](\A i, j \in 1..Len(Complaints) :
          i < j => Complaints[i].id < Complaints[j].id)
  /\ [](run.pc = "done" => Cardinality(RowOf(run.last_row_id)) = 1)
  /\ [](run.pc \in {"embed", "query", "classify", "lookup1", "lookup2", "insert"}
          => run.last_row_id = 0)

C15_Witness ==
  /\ Len(Complaints) = 2
  /\ Complaints[1].id = 1
  /\ Complaints[2].id = 2
  /\ run.pc = "done"
  /\ run.caller = "queue"
  /\ qpos = 2

\* ------------------------------------------------------------------------
\* C16: a GET served while Complaints has no rows, its three queries
\* succeeding, answers status 200 with total_complaints = 0, both counts 0
\* and both percentages 0: the division is not made when the total is 0.
C16_EmptyStoreAnalytics ==
  (get.pc = "responded" /\ get.status # 405 /\ Len(Complaints) = 0)
    => \/ get = GetFailed
       \/ /\ get.status = 200
          /\ get.total = 0
          /\ get.positive = 0 /\ get.negative = 0
          /\ get.known = 0 /\ get.stock = 0
          /\ get.knownPct = 0 /\ get.stockPct = 0

C16_Witness ==
  /\ get.pc = "responded"
  /\ get.status = 200
  /\ get.total = 0
  /\ get.knownPct = 0
  /\ Len(Complaints) = 0
  /\ run.pc = "insert"

\* ------------------------------------------------------------------------
\* C17: the GET handler only reads: none of its steps changes Complaints,
\* Solutions, the vector index or the id counter. Its answer is a function
\* of the table: a GET during which no row was written returns the counts
\* and percentages of the rows then present, so two such requests over the
\* same rows return identical snapshots.
RECURSIVE CountOf(_, _, _)
CountOf(rows, column, value) ==
  IF rows = <<>>
  THEN 0
  ELSE (IF Head(rows)[column] = value THEN 1 ELSE 0)
         + CountOf(Tail(rows), column, value)

SnapshotOf(rows) ==
  LET n == Len(rows)
      k == CountOf(rows, "answer_type", "KNOWN_SOLUTION")
      s == CountOf(rows, "answer_type", "STOCK")
  IN [total |-> n,
      positive |-> CountOf(rows, "sentiment", "positive"),
      negative |-> CountOf(rows, "sentiment", "negative"),
      known |-> k,
      stock |-> s,
      knownPct |-> IF n = 0 THEN 0 ELSE (20000 * k + n) \div (2 * n),
      stockPct |-> IF n = 0 THEN 0 ELSE (20000 * s + n) \div (2 * n)]

C17_PureIdempotentRead ==
  /\ [][get' # get
          => /\ Complaints' = Complaints
             /\ Solutions' = Solutions
             /\ Index' = Index
             /\ nextId' = nextId]_vars
  /\ [](get.pc = "responded" /\ get.status = 200 /\ get.n0 = Len(Complaints)
          => [total |-> get.total,
              positive |-> get.positive,
              negative |-> get.negative,
              known |-> get.known,
              stock |-> get.stock,
              knownPct |-> get.knownPct,
              stockPct |-> get.stockPct] = SnapshotOf(Complaints))

C17_Witness ==
  /\ get.pc = "responded"
  /\ get.status = 200
  /\ get.n0 = 2
  /\ Len(Complaints) = 2
  /\ get.known = 1
  /\ get.stock = 1
  /\ get.knownPct = 5000
  /\ get.negative = 1

\* ------------------------------------------------------------------------
\* C18: the second lookup reads Solutions under the category stored in the
\* top match's metadata, not the current complaint's; when it finds a
\* non-empty solution_text the decision is KNOWN_SOLUTION with that text.
\* The run's own normalized_key is left as the classifier set it, and that
\* is the value persisted with the row.
C18_Tier2MatchedCategory ==
  /\ [][run.pc = "lookup2" /\ run'.pc = "insert"
          => LET matched == run.similarComplaints[1].metadata.normalized_key
             IN /\ run'.ragSolution = Solutions[matched]
                /\ run'.normalized_key = run.normalized_key
                /\ HasSolution(Solutions[matched])
                     => /\ run'.answer_type = "KNOWN_SOLUTION"
                        /\ run'.emailResponse = Solutions[matched]]_vars
  /\ [][run.pc \in {"lookup1", "lookup2", "insert", "embed2", "vinsert"}
        /\ run'.pc # "idle"
          => run'.normalized_key = run.normalized_key]_vars
  /\ [](run.pc \in {"embed2", "vinsert", "done"}
          => \A i \in RowOf(run.last_row_id) :
               Complaints[i].normalized_key = run.normalized_key)

C18_Witness ==
  /\ run.pc = "insert"
  /\ run.normalized_key = "technical"
  /\ run.solutionResult = NoRow
  /\ run.similarComplaints # <<>>
  /\ run.similarComplaints[1].metadata.normalized_key = "billing"
  /\ run.ragSolution = BillingText
  /\ run.answer_type = "KNOWN_SOLUTION"
  /\ run.emailResponse = BillingText

\* ------------------------------------------------------------------------
\* C19 as stated: a response whose {...} substring is not valid JSON but
\* which contains a matchable token (normalized_key": "billing") is
\* classified by the patterns, giving that token rather than the default.
C19_RegexAfterFailedParse ==
  (run.pc = "lookup1" /\ run.aiResponse.kind = "badjson")
    => /\ KeyMatch(run.aiResponse.key)
            => run.normalized_key = ToLower(run.aiResponse.key)
       /\ SentimentMatch(run.aiResponse.sent)
            => run.sentiment = ToLower(run.aiResponse.sent)

\* C19 amended: the two patterns are tried only when the response has no
\* {...} substring at all. When it has one that is not valid JSON, the parse
\* error is caught and both values stay at their defaults, whatever tokens
\* the text contains; when it parses, each field absent from the object
\* keeps its default.
C19_RegexOnlyWithoutBraces ==
  run.pc = "lookup1"
    => LET r == run.aiResponse
       IN /\ r.kind = "badjson"
               => /\ run.normalized_key = DefaultKey
                  /\ run.sentiment = DefaultSentiment
          /\ r.kind = "text"
               => /\ run.normalized_key =
                       IF KeyMatch(r.key) THEN ToLower(r.key) ELSE DefaultKey
                  /\ run.sentiment =
                       IF SentimentMatch(r.sent) THEN ToLower(r.sent)
                       ELSE DefaultSentiment
          /\ r.kind = "json"
               => /\ r.key = "" => run.normalized_key = DefaultKey
                  /\ r.sent = "" => run.sentiment = DefaultSentiment

C19_Witness ==
  /\ run.pc = "lookup1"
  /\ run.aiResponse = [kind |-> "badjson", key |-> "billing", sent |-> "negative"]
  /\ run.normalized_key = "general"
  /\ run.sentiment = "neutral"

\* ------------------------------------------------------------------------
\* C20: the embedding service is called once per complaint, and after the
\* row is written VECTORIZE.insert is attempted exactly when the embedding
\* computed for the similarity query was non-empty, with that same vector:
\* the store step makes no call of its own, so its outcome cannot differ
\* from the query step's.
C20_EmbeddingComputedOnce ==
  /\ run.embedding # "unset" => run.embedding = run.queryEmbedding
  /\ run.pc = "vinsert" => run.queryEmbedding = "vec"
  /\ run.pc = "done" =>
       (run.vectorInsert # "none" <=> run.queryEmbedding = "vec")

\* ------------------------------------------------------------------------
\* C21: within a run VECTORIZE.insert is issued only after the Complaints
\* insert has returned, and the embedding id is built from the row id that
\* insert assigned; so every record of the index carries the id of a row
\* that exists in Complaints.
C21_EmbeddingAfterRow ==
  /\ run.pc = "vinsert" \/ run.vectorInsert # "none"
       => run.last_row_id > 0 /\ RowOf(run.last_row_id) # {}
  /\ \A e \in Index : RowOf(e.id) # {}
  /\ run.pc = "done" /\ run.vectorInsert = "ok"
       => \E e \in Index : e.id = run.last_row_id

C21_Witness ==
  /\ run.pc = "done"
  /\ run.vectorInsert = "ok"
  /\ Cardinality(Index) = 2
  /\ Len(Complaints) = 2
  /\ \E e \in Index : e.id = 2

\* ------------------------------------------------------------------------
\* C22: the first Solutions lookup and the choice of tier come only after
\* both the similarity search and the classification have finished, and the
\* tiers are tried in the order 1, 2, 3, 4, the first applicable one
\* deciding: an exact solution, else the second lookup for a top match above
\* the threshold answered KNOWN_SOLUTION, else the stock reply.
C22_DecisionAfterBothInputs ==
  /\ run.pc \in {"lookup1", "lookup2", "insert"}
       => /\ run.queryEmbedding # "unset"
          /\ run.queryEmbedding = "vec" => run.queried
          /\ run.normalized_key # "unset"
          /\ run.sentiment # "unset"
  /\ run.pc \in {"embed", "query", "classify"}
       => /\ run.solutionResult = "unset"
          /\ run.answer_type = "unset"
  /\ run.pc = "lookup2"
       => /\ ~HasSolution(run.solutionResult)
          /\ HighMatch(run.similarComplaints)
          /\ run.similarComplaints[1].metadata.answer_type = "KNOWN_SOLUTION"
  /\ run.pc = "insert"
       => LET similar == run.similarComplaints
              stock == /\ run.answer_type = "STOCK"
                       /\ run.emailResponse = StockReply(run.normalized_key)
          IN IF HasSolution(run.solutionResult)
             THEN /\ run.answer_type = "KNOWN_SOLUTION"
                  /\ run.emailResponse = run.solutionResult
                  /\ run.ragSolution = "unset"
             ELSE IF /\ HighMatch(similar)
                     /\ similar[1].metadata.answer_type = "KNOWN_SOLUTION"
                  THEN IF HasSolution(run.ragSolution)
                       THEN /\ run.answer_type = "KNOWN_SOLUTION"
                            /\ run.emailResponse = run.ragSolution
                       ELSE stock /\ run.ragSolution # "unset"
                  ELSE stock /\ run.ragSolution = "unset"

\* a run decided by tier 1 although its top match would have passed tier 2
C22_Witness ==
  /\ run.pc = "insert"
  /\ run.solutionResult = BillingText
  /\ run.queried
  /\ HighMatch(run.similarComplaints)
  /\ run.similarComplaints[1].metadata.answer_type = "KNOWN_SOLUTION"
  /\ run.answer_type = "KNOWN_SOLUTION"
  /\ run.ragSolution = "unset"

\* ------------------------------------------------------------------------
\* C23: with no exact match and a top match above the threshold whose
\* metadata answer_type is not KNOWN_SOLUTION, the decision is STOCK, the
\* second lookup is not made, and the reply is the stock template with the
\* current complaint's normalized_key, not the matched one.
C23_Tier3Stock ==
  LET similar == run.similarComplaints
      tier3 == /\ NoExactMatch
               /\ Len(similar) > 0
               /\ similar[1].score > Threshold
               /\ similar[1].metadata.answer_type # "KNOWN_SOLUTION"
  IN /\ run.pc = "lookup2" => ~tier3
     /\ run.pc = "insert" /\ tier3
          => /\ run.answer_type = "STOCK"
             /\ run.ragSolution = "unset"
             /\ run.emailResponse = StockReply(run.normalized_key)

C23_Witness ==
  /\ run.pc = "insert"
  /\ run.solutionResult = NoRow
  /\ run.normalized_key = "technical"
  /\ Len(run.similarComplaints) > 0
  /\ run.similarComplaints[1].score = 8
  /\ run.similarComplaints[1].metadata.answer_type = "STOCK"
  /\ run.similarComplaints[1].metadata.normalized_key = "general"
  /\ run.emailResponse = StockReply("technical")
  /\ Solutions["billing"] = BillingText

\* ------------------------------------------------------------------------
\* C24: for every match sequence of length at most 3 only the first match
\* decides tier 2: when the first element fails the tier-2 conditions (score
\* not above the threshold, or answer_type not KNOWN_SOLUTION) and there is
\* no exact match, the decision is STOCK without a second lookup, whatever
\* the second and third matches are; the second lookup, when made, is for
\* the first element.
C24_TopMatchOnly ==
  LET similar == run.similarComplaints
      firstPasses == /\ Len(similar) > 0
                     /\ similar[1].score > Threshold
                     /\ similar[1].metadata.answer_type = "KNOWN_SOLUTION"
  IN /\ run.pc = "lookup2" => firstPasses
     /\ run.pc = "insert" /\ NoExactMatch /\ ~firstPasses
          => /\ run.answer_type = "STOCK"
             /\ run.ragSolution = "unset"
             /\ run.emailResponse = StockReply(run.normalized_key)
     /\ run.pc = "insert" /\ run.ragSolution # "unset"
          => /\ firstPasses
             /\ run.ragSolution \in
                  {Solutions[similar[1].metadata.normalized_key], BillingText}

\* the first match is above the threshold but answered STOCK, the second is
\* above it and answered KNOWN_SOLUTION for a category that has a solution
C24_Witness ==
  /\ run.pc = "insert"
  /\ run.solutionResult = NoRow
  /\ Len(run.similarComplaints) = 3
  /\ run.similarComplaints[1].score = 8
  /\ run.similarComplaints[1].metadata.answer_type = "STOCK"
  /\ run.similarComplaints[2].score = 8
  /\ run.similarComplaints[2].metadata.answer_type = "KNOWN_SOLUTION"
  /\ run.similarComplaints[2].metadata.normalized_key = "billing"
  /\ Solutions["billing"] = BillingText
  /\ run.answer_type = "STOCK"

\* ------------------------------------------------------------------------
\* C25: once a run has written its row, the row has the input's
\* customer_email and text, answered = TRUE, and the normalized_key,
\* sentiment and answer_type the run returns; and if the run stored an
\* embedding, its metadata carries the same three values. The record of
\* every stored embedding agrees with the row whose id it carries.
C25_RecordsAgree ==
  /\ run.pc \in {"embed2", "vinsert", "done"}
       => /\ Cardinality(RowOf(run.last_row_id)) = 1
          /\ \A i \in RowOf(run.last_row_id) :
               /\ Complaints[i].customer_email = run.complaint.customer_email
               /\ Complaints[i].text = run.complaint.text
               /\ Complaints[i].answered = TRUE
               /\ Complaints[i].normalized_key = run.normalized_key
               /\ Complaints[i].sentiment = run.sentiment
               /\ Complaints[i].answer_type = run.answer_type
  /\ run.pc = "done" /\ run.vectorInsert = "ok"
       => \E e \in Index :
            /\ e.id = run.last_row_id
            /\ e.normalized_key = run.normalized_key
            /\ e.sentiment = run.sentiment
            /\ e.answer_type = run.answer_type
  /\ \A e \in Index : \A i \in RowOf(e.id) :
       /\ e.normalized_key = Complaints[i].normalized_key
       /\ e.sentiment = Complaints[i].sentiment
       /\ e.answer_type = Complaints[i].answer_type
       /\ e.customer_email = Complaints[i].customer_email

C25_Witness ==
  /\ run.pc = "done"
  /\ run.vectorInsert = "ok"
  /\ run.normalized_key = "billing"
  /\ run.sentiment = "negative"
  /\ run.answer_type = "KNOWN_SOLUTION"
  /\ \E e \in Index : e.id = run.last_row_id /\ e.answer_type = "KNOWN_SOLUTION"

\* ------------------------------------------------------------------------
\* C26: nothing is deduplicated. Every run that gets past its insert has
\* added a row of its own at the end of the table, with the input's
\* customer_email and text, whether or not such a row was already there;
\* ids are pairwise distinct; and for every message body, the table holds
\* at least as many rows with that customer_email and text as the current
\* batch has acked deliveries of it (likewise for embeddings: one per id).
C26_NoDeduplication ==
  /\ \A i, j \in 1..Len(Complaints) :
       i # j => Complaints[i].id # Complaints[j].id
  /\ run.pc \in {"embed2", "vinsert", "done"}
       => /\ Len(Complaints) > 0
          /\ Complaints[Len(Complaints)].id = run.last_row_id
          /\ Complaints[Len(Complaints)].customer_email
               = run.complaint.customer_email
          /\ Complaints[Len(Complaints)].text = run.complaint.text
  /\ \A b \in QueueBodies :
       Cardinality({ i \in 1..Len(batch) :
                       batch[i].status = "acked" /\ batch[i].body = b })
         <= Cardinality({ i \in 1..Len(Complaints) :
                            /\ Complaints[i].customer_email = b.customer_email
                            /\ Complaints[i].text = b.text })
  /\ \A e, f \in Index :
       e.id = f.id => e = f

\* the same message delivered twice in one batch, both deliveries acked
C26_Witness ==
  /\ Len(batch) = 2
  /\ batch[1].body = batch[2].body
  /\ batch[1].status = "acked"
  /\ batch[2].status = "acked"
  /\ Len(Complaints) = 2
  /\ Complaints[1].id # Complaints[2].id
  /\ Complaints[1].customer_email = Complaints[2].customer_email
  /\ Complaints[1].text = Complaints[2].text
  /\ Cardinality(Index) = 2

\* ------------------------------------------------------------------------
\* C27: every row of Complaints has a non-empty customer_email and a
\* non-empty text, over any sequence of POST requests and queue batches: a
\* queue message lacking one of the two is not persisted.
C27_RowsHaveBothFields ==
  \A i \in 1..Len(Complaints) :
    /\ Complaints[i].customer_email # ""
    /\ Complaints[i].text # ""

\* ------------------------------------------------------------------------
\* C28: in every GET answer, also when inserts land between its three
\* queries, known_solution.count + stock.count = total_complaints and both
\* percentages lie between 0 and 100 (in hundredths: 0..10000).
C28_SnapshotConsistent ==
  (get.pc = "responded" /\ get.status = 200)
    => /\ get.known + get.stock = get.total
       /\ get.knownPct \in 0..10000
       /\ get.stockPct \in 0..10000

\* ------------------------------------------------------------------------
\* C29: in every batch each message gets exactly one of ack() and retry():
\* the messages before the loop position are settled, each with one of the
\* two outcomes, the one being processed and the later ones are still
\* pending, and when the handler has left the loop no message is pending.
\* Messages are taken in order, and a failed message does not stop the
\* loop: the run in progress is always for the message at the position.
C29_BatchIsolation ==
  /\ qpos \in 1..(Len(batch) + 1)
  /\ \A i \in 1..Len(batch) :
       /\ i < qpos => batch[i].status \in {"acked", "retried"}
       /\ i >= qpos => batch[i].status = "pending"
  /\ run.caller = "queue" /\ run.pc # "idle"
       => qpos <= Len(batch) /\ run.complaint = batch[qpos].body
  /\ run.caller = "post" => batch = <<>>

C29_Witness ==
  /\ Len(batch) = 2
  /\ batch[1].status = "retried"
  /\ batch[2].status = "pending"
  /\ qpos = 2
  /\ run.caller = "queue"
  /\ run.pc = "done"

\* ------------------------------------------------------------------------
\* C30: a run that ends by throwing (the classifier call, the first or the
\* second Solutions lookup, or the Complaints insert failed) leaves
\* Complaints and the vector index exactly as they were when it began, and
\* they are still so when its caller has answered; a queue message that is
\* retried has therefore left no row and no embedding from that attempt.
C30_ErrorLeavesStores ==
  /\ [](run.pc = "failed"
          => /\ run.error \in {"classify", "lookup1", "lookup2", "insert"}
             /\ Complaints = run.entry.rows
             /\ Index = run.entry.index
             /\ run.last_row_id = 0
             /\ run.vectorInsert = "none")
  /\ [][run.pc = "failed" /\ run'.pc = "idle"
          => /\ Complaints' = run.entry.rows
             /\ Index' = run.entry.index
             /\ run.caller = "queue" => batch'[qpos].status = "retried"
             /\ run.caller = "post" => httpStatus' = 500]_vars

\* a message retried after its insert failed, an earlier complaint stored
C30_Witness ==
  /\ run.pc = "failed"
  /\ run.error = "insert"
  /\ run.caller = "queue"
  /\ Len(Complaints) = 1
  /\ Cardinality(Index) = 1
  /\ run.entry.rows = Complaints

\* ------------------------------------------------------------------------
\* C31 as stated: every row and every embedding record with answer_type
\* KNOWN_SOLUTION carries a normalized_key under which Solutions held a
\* non-empty solution_text when the complaint was resolved (solutionResult
\* is what the run read under its own normalized_key).
C31_KnownKeyHadSolution ==
  (Resolved /\ run.answer_type = "KNOWN_SOLUTION")
    => /\ HasSolution(run.solutionResult)
       /\ \A i \in RowOf(run.last_row_id) :
            Complaints[i].answer_type = "KNOWN_SOLUTION"
              => HasSolution(run.solutionResult)

\* C31 amended: a complaint answered KNOWN_SOLUTION got its text from a
\* Solutions row that was non-empty when it was read, either under the
\* complaint's own normalized_key (first lookup) or, failing that, under the
\* category of its top match (second lookup). The row and the embedding
\* record carry the complaint's own normalized_key in both cases, so in the
\* second case the key they carry need not have had a solution.
C31_KnownHadSomeSolution ==
  /\ []((Resolved /\ run.answer_type = "KNOWN_SOLUTION")
          => /\ \/ /\ HasSolution(run.solutionResult)
                   /\ run.emailResponse = run.solutionResult
                   /\ run.ragSolution = "unset"
                \/ /\ ~HasSolution(run.solutionResult)
                   /\ run.ragSolution \notin {"unset", NoRow, ""}
                   /\ run.emailResponse = run.ragSolution
             /\ \A i \in RowOf(run.last_row_id) :
                  Complaints[i].normalized_key = run.normalized_key
             /\ \A e \in Index :
                  e.id = run.last_row_id /\ run.last_row_id > 0
                    => e.normalized_key = run.normalized_key)
  /\ [][run.pc = "lookup1" /\ run'.pc \in {"insert", "lookup2"}
          => run'.solutionResult = Solutions[run.normalized_key]]_vars
  /\ [][run.pc = "lookup2" /\ run'.pc = "insert"
          => \E k \in Keys : run'.ragSolution = Solutions[k]]_vars

\* a technical complaint stored, with its embedding, as KNOWN_SOLUTION on the
\* billing text of its top match, technical having no Solutions row
C31_Witness ==
  /\ run.pc = "done"
  /\ run.vectorInsert = "ok"
  /\ run.normalized_key = "technical"
  /\ run.solutionResult = NoRow
  /\ run.ragSolution = BillingText
  /\ Solutions["technical"] = NoRow
  /\ \E i \in RowOf(run.last_row_id) :
       /\ Complaints[i].answer_type = "KNOWN_SOLUTION"
       /\ Complaints[i].normalized_key = "technical"
  /\ \E e \in Index :
       /\ e.id = run.last_row_id
       /\ e.answer_type = "KNOWN_SOLUTION"
       /\ e.normalized_key = "technical"

====
